---------------------------- MODULE Spec2Model ----------------------------
(***************************************************************************)
(* Model of the pixel editor in src/src/App.tsx: the canvas pixel buffer,  *)
(* the drawing tools and their mouse handlers, the undo/redo history, and  *)
(* the asynchronous callbacks (persisted-image reload, debounce timer,     *)
(* image import) that touch the canvas.                                    *)
(*                                                                         *)
(* Scaling.  The canvas is Width x Height instead of 32 x 32, the history  *)
(* keeps HistoryCapacity entries instead of 50, and the selectable colours *)
(* are a few of the sixteen palette entries and colour-picker values.      *)
(* History indices are the code's (0-based, -1 when empty); TLA+ sequences *)
(* are 1-based, so the code's history[i] is history[i + 1] here.           *)
(*                                                                         *)
(* Spec is the component with its handlers and callbacks; RasterSpec runs   *)
(* one call of floodFill, drawLine, drawRect or drawCircle on its own, on  *)
(* arguments that no gesture of the component need produce.  ZoomSpec adds *)
(* the zoom keys and buttons to the pointer handlers, and BurstSpec is a   *)
(* freehand drag in which a move may be handled before the render that the *)
(* move before it caused.                                                  *)
(*                                                                         *)
(* Not modelled: the overlay canvas (shape previews), mousePos, showGrid,  *)
(* the window position, and the alpha channel (every pixel the handlers    *)
(* read is read through its R, G, B channels only).                        *)
(***************************************************************************)
EXTENDS Integers, Sequences, FiniteSets, TLC

(***************************************************************************)
(* Bounds of the model.                                                    *)
(***************************************************************************)
\* canvasSize.width and canvasSize.height (32 in the code), scaled down.
Width == 2
Height == 2
\* The number of entries saveToHistory keeps (50 in the code), scaled down.
HistoryCapacity == 3
\* Images whose load callback is outstanding (persisted-image reloads).
MaxPendingLoads == 3
\* File imports whose load callback is outstanding.
MaxPendingImports == 1
\* User events and callbacks handled after the mount (this also bounds
\* historyIndex, which no eviction ever decreases).
MaxEvents == 5

NULL == "null"

Min(a, b) == IF a < b THEN a ELSE b
Max(a, b) == IF a > b THEN a ELSE b
Abs(a) == IF a < 0 THEN -a ELSE a

(***************************************************************************)
(* Colours.  A colour string is a sequence of one-character strings, so    *)
(* that '#FFFFFF' and '#ffffff' are different strings with equal channels. *)
(***************************************************************************)
LowerDigits == <<"0", "1", "2", "3", "4", "5", "6", "7", "8", "9",
                 "a", "b", "c", "d", "e", "f">>
UpperDigits == <<"0", "1", "2", "3", "4", "5", "6", "7", "8", "9",
                 "A", "B", "C", "D", "E", "F">>

IsHexDigit(ch) ==
    \E i \in 1..16 : LowerDigits[i] = ch \/ UpperDigits[i] = ch

\* parseInt of one hexadecimal digit, either case.
HexDigitValue(ch) ==
    (CHOOSE i \in 1..16 : LowerDigits[i] = ch \/ UpperDigits[i] = ch) - 1

\* parseInt(twoDigits, 16)
ParseHexByte(hi, lo) == 16 * HexDigitValue(hi) + HexDigitValue(lo)

\* n.toString(16).padStart(2, '0') for a channel 0..255
ByteToHex(n) == <<LowerDigits[(n \div 16) + 1], LowerDigits[(n % 16) + 1]>>

\* The string without its optional leading '#'.
HexBody(hex) == IF Len(hex) > 0 /\ hex[1] = "#" THEN Tail(hex) ELSE hex

\* Whether the regular expression of hexToRgb matches.
MatchesHex(hex) ==
    Len(HexBody(hex)) = 6 /\ \A i \in 1..6 : IsHexDigit(HexBody(hex)[i])

\* hexToRgb: /^#?([a-f\d]{2})([a-f\d]{2})([a-f\d]{2})$/i, or null.
HexToRgb(hex) ==
    LET body == HexBody(hex)
    IN  IF MatchesHex(hex)
        THEN [r |-> ParseHexByte(body[1], body[2]),
              g |-> ParseHexByte(body[3], body[4]),
              b |-> ParseHexByte(body[5], body[6])]
        ELSE NULL

\* '#000000', '#FFFFFF' and '#FF0000' of DEFAULT_PALETTE.
DEFAULT_PALETTE ==
    { <<"#", "0", "0", "0", "0", "0", "0">>,
      <<"#", "F", "F", "F", "F", "F", "F">>,
      <<"#", "F", "F", "0", "0", "0", "0">> }

\* A value of the <input type="color"> pickers, which report lower case.
PickerColors == { <<"#", "f", "f", "f", "f", "f", "f">> }

Black == <<"#", "0", "0", "0", "0", "0", "0">>
White == <<"#", "F", "F", "F", "F", "F", "F">>

(***************************************************************************)
(* The canvas: one [r, g, b] pixel for each point of the grid.             *)
(***************************************************************************)
Xs == 0..(Width - 1)
Ys == 0..(Height - 1)
Points == { [x |-> px, y |-> py] : px \in Xs, py \in Ys }

InCanvas(px, py) == px >= 0 /\ px < Width /\ py >= 0 /\ py < Height

\* ctx.fillStyle = color; ctx.fillRect(0, 0, width, height)
FillAll(color) == [p \in Points |-> HexToRgb(color)]

\* drawPixel with ctx.fillRect(x, y, 2, 1): the pixel and its right neighbour.
DrawPixel_TwoWide(data, px, py, color) ==
    [p \in Points |->
       IF p.y = py /\ p.x \in {px, px + 1} THEN HexToRgb(color) ELSE data[p]]

\* drawPixel: ctx.fillRect(x, y, 1, 1); the canvas clips what lies outside it.
DrawPixel(data, px, py, color) ==
    IF InCanvas(px, py)
    THEN [data EXCEPT ![[x |-> px, y |-> py]] = HexToRgb(color)]
    ELSE data

\* getPixelColor: the pixel's channels as a lower-case '#rrggbb'.
GetPixelColor(data, px, py) ==
    LET d == data[[x |-> px, y |-> py]]
    IN  <<"#">> \o ByteToHex(d.r) \o ByteToHex(d.g) \o ByteToHex(d.b)


(***************************************************************************)
(* Rasterizers.                                                            *)
(***************************************************************************)
\* A flood fill whose fill colour differs from the target colour in some
\* channel fills each pixel at most once, so it pops at most this many points;
\* a loop that has popped as many and still has a stack never ends.
MaxPops == 4 * Width * Height + 1

\* FillLoop with the first push at (x + 1, y + 1) instead of (x + 1, y).
RECURSIVE FillLoop_DiagonalPush(_, _, _, _, _)
FillLoop_DiagonalPush(data, stack, targetRGB, fillRGB, fuel) ==
    IF stack = <<>>
    THEN [data |-> data, returns |-> TRUE, reads |-> {}, pops |-> 0]
    ELSE IF fuel = 0
    THEN [data |-> data, returns |-> FALSE, reads |-> {}, pops |-> 0]
    ELSE LET p == stack[Len(stack)]
             rest == SubSeq(stack, 1, Len(stack) - 1)
         IN  IF p.x < 0 \/ p.x >= Width \/ p.y < 0 \/ p.y >= Height
             THEN [FillLoop_DiagonalPush(data, rest, targetRGB, fillRGB, fuel - 1)
                     EXCEPT !.pops = @ + 1]
             ELSE [(IF data[p].r = targetRGB.r /\ data[p].g = targetRGB.g
                       /\ data[p].b = targetRGB.b
                    THEN FillLoop_DiagonalPush(
                           [data EXCEPT ![p] = fillRGB],
                           rest \o << [x |-> p.x + 1, y |-> p.y + 1],
                                      [x |-> p.x - 1, y |-> p.y],
                                      [x |-> p.x, y |-> p.y + 1],
                                      [x |-> p.x, y |-> p.y - 1] >>,
                           targetRGB, fillRGB, fuel - 1)
                    ELSE FillLoop_DiagonalPush(data, rest, targetRGB, fillRGB,
                                               fuel - 1))
                     EXCEPT !.pops = @ + 1, !.reads = @ \cup {p}]

\* The while loop of floodFill: stack.pop(), the bounds test, the comparison
\* of the three channels, the write and the four pushes.  reads is the set of
\* points whose channels the loop reads in data, pops the number of pops.
RECURSIVE FillLoop(_, _, _, _, _)
FillLoop(data, stack, targetRGB, fillRGB, fuel) ==
    IF stack = <<>>
    THEN [data |-> data, returns |-> TRUE, reads |-> {}, pops |-> 0]
    ELSE IF fuel = 0
    THEN [data |-> data, returns |-> FALSE, reads |-> {}, pops |-> 0]
    ELSE LET p == stack[Len(stack)]
             rest == SubSeq(stack, 1, Len(stack) - 1)
         IN  IF p.x < 0 \/ p.x >= Width \/ p.y < 0 \/ p.y >= Height
             THEN [FillLoop(data, rest, targetRGB, fillRGB, fuel - 1)
                     EXCEPT !.pops = @ + 1]
             ELSE [(IF data[p].r = targetRGB.r /\ data[p].g = targetRGB.g
                       /\ data[p].b = targetRGB.b
                    THEN FillLoop([data EXCEPT ![p] = fillRGB],
                                  rest \o << [x |-> p.x + 1, y |-> p.y],
                                             [x |-> p.x - 1, y |-> p.y],
                                             [x |-> p.x, y |-> p.y + 1],
                                             [x |-> p.x, y |-> p.y - 1] >>,
                                  targetRGB, fillRGB, fuel - 1)
                    ELSE FillLoop(data, rest, targetRGB, fillRGB, fuel - 1))
                     EXCEPT !.pops = @ + 1, !.reads = @ \cup {p}]

\* floodFill: returns is FALSE when the loop never ends.
FloodFill(data, startX, startY, targetColor, fillColor) ==
    IF targetColor = fillColor
    THEN [data |-> data, returns |-> TRUE, reads |-> {}, pops |-> 0]
    ELSE IF ~MatchesHex(targetColor) \/ ~MatchesHex(fillColor)
         THEN [data |-> data, returns |-> TRUE, reads |-> {}, pops |-> 0]
         ELSE FillLoop(data, << [x |-> startX, y |-> startY] >>,
                       HexToRgb(targetColor), HexToRgb(fillColor), MaxPops)

\* drawPixel of one colour at every point of a set (the order does not matter);
\* the canvas clips the points outside it.
DrawPixels(data, pts, color) ==
    [p \in Points |-> IF p \in pts THEN HexToRgb(color) ELSE data[p]]

\* LineLoop with the test of the end point before drawPixel, not after it.
RECURSIVE LineLoop_BreakFirst(_, _, _, _, _, _, _, _, _, _)
LineLoop_BreakFirst(lx, ly, x1, y1, dx, dy, sx, sy, err, fuel) ==
    LET here == << [x |-> lx, y |-> ly] >>
        e2 == 2 * err
        stepX == e2 > -dy
        stepY == e2 < dx
        err1 == IF stepX THEN err - dy ELSE err
    IN  IF lx = x1 /\ ly = y1 THEN [path |-> <<>>, returns |-> TRUE]
        ELSE IF fuel = 0 THEN [path |-> here, returns |-> FALSE]
        ELSE [LineLoop_BreakFirst(IF stepX THEN lx + sx ELSE lx,
                                  IF stepY THEN ly + sy ELSE ly,
                                  x1, y1, dx, dy, sx, sy,
                                  IF stepY THEN err1 + dx ELSE err1,
                                  fuel - 1)
                EXCEPT !.path = here \o @]

\* The while (true) loop of drawLine: the points passed to drawPixel, in
\* order.  returns is FALSE when fuel iterations did not reach the break.
RECURSIVE LineLoop(_, _, _, _, _, _, _, _, _, _)
LineLoop(lx, ly, x1, y1, dx, dy, sx, sy, err, fuel) ==
    LET here == << [x |-> lx, y |-> ly] >>
        e2 == 2 * err
        stepX == e2 > -dy
        stepY == e2 < dx
        err1 == IF stepX THEN err - dy ELSE err
    IN  IF lx = x1 /\ ly = y1 THEN [path |-> here, returns |-> TRUE]
        ELSE IF fuel = 0 THEN [path |-> here, returns |-> FALSE]
        ELSE [LineLoop(IF stepX THEN lx + sx ELSE lx,
                       IF stepY THEN ly + sy ELSE ly,
                       x1, y1, dx, dy, sx, sy,
                       IF stepY THEN err1 + dx ELSE err1,
                       fuel - 1)
                EXCEPT !.path = here \o @]

\* LinePath with the error term started from x1 - x0 instead of its
\* absolute value dx.
LinePath_SignedErr(x0, y0, x1, y1) ==
    LET dx == Abs(x1 - x0)
        dy == Abs(y1 - y0)
        sx == IF x0 < x1 THEN 1 ELSE -1
        sy == IF y0 < y1 THEN 1 ELSE -1
    IN  LineLoop(x0, y0, x1, y1, dx, dy, sx, sy, (x1 - x0) - dy, dx + dy + 1)

\* The calls of drawPixel drawLine makes.  A run that reaches the break makes
\* at most dx + dy + 1 of them; one that has made more never reaches it.
LinePath(x0, y0, x1, y1) ==
    LET dx == Abs(x1 - x0)
        dy == Abs(y1 - y0)
        sx == IF x0 < x1 THEN 1 ELSE -1
        sy == IF y0 < y1 THEN 1 ELSE -1
    IN  LineLoop(x0, y0, x1, y1, dx, dy, sx, sy, dx - dy, dx + dy + 1)

\* The elements of a sequence.
Range(seq) == { seq[i] : i \in 1..Len(seq) }

\* drawLine
DrawLine(data, x0, y0, x1, y1, color) ==
    DrawPixels(data, Range(LinePath(x0, y0, x1, y1).path), color)

\* RectPixels without the min/max normalisation of the corners.
RectPixels_NoNormalize(x0, y0, x1, y1, filled) ==
    LET left == x0
        right == x1
        top == y0
        bottom == y1
    IN  IF filled
        THEN { [x |-> px, y |-> py] : px \in left..right, py \in top..bottom }
        ELSE { [x |-> px, y |-> py] : px \in left..right, py \in {top, bottom} }
             \cup
             { [x |-> px, y |-> py] : px \in {left, right}, py \in top..bottom }

\* The pixels drawRect writes: the closed rectangle, or its four edges.
RectPixels(x0, y0, x1, y1, filled) ==
    LET left == Min(x0, x1)
        right == Max(x0, x1)
        top == Min(y0, y1)
        bottom == Max(y0, y1)
    IN  IF filled
        THEN { [x |-> px, y |-> py] : px \in left..right, py \in top..bottom }
        ELSE { [x |-> px, y |-> py] : px \in left..right, py \in {top, bottom} }
             \cup
             { [x |-> px, y |-> py] : px \in {left, right}, py \in top..bottom }

\* drawRect
DrawRect(data, x0, y0, x1, y1, color, filled) ==
    DrawPixels(data, RectPixels(x0, y0, x1, y1, filled), color)

\* plotPoints: the eight symmetric points, those outside the canvas dropped.
PlotPoints(cx, cy, ox, oy) ==
    { p \in { [x |-> cx + ox, y |-> cy + oy], [x |-> cx - ox, y |-> cy + oy],
              [x |-> cx + ox, y |-> cy - oy], [x |-> cx - ox, y |-> cy - oy],
              [x |-> cx + oy, y |-> cy + ox], [x |-> cx - oy, y |-> cy + ox],
              [x |-> cx + oy, y |-> cy - ox], [x |-> cx - oy, y |-> cy - ox] } :
        p.x >= 0 /\ p.x < Width /\ p.y >= 0 /\ p.y < Height }

\* The while (y >= x) loop of the outline circle: the points plotted from
\* the state (ox, oy, d) on.
RECURSIVE CircleLoop(_, _, _, _, _)
CircleLoop(cx, cy, ox, oy, d) ==
    IF oy >= ox
    THEN LET nx == ox + 1
             ny == IF d > 0 THEN oy - 1 ELSE oy
             nd == IF d > 0 THEN d + 4 * (nx - ny) + 10 ELSE d + 4 * nx + 6
         IN  PlotPoints(cx, cy, nx, ny) \cup CircleLoop(cx, cy, nx, ny, nd)
    ELSE {}

\* CirclePixels with x * x + y * y < radius * radius in the filled mode.
CirclePixels_StrictlyInside(centerX, centerY, radius, filled) ==
    IF filled
    THEN { [x |-> centerX + ox, y |-> centerY + oy] :
             <<ox, oy>> \in
               { o \in ((-radius)..radius) \X ((-radius)..radius) :
                   /\ o[1] * o[1] + o[2] * o[2] < radius * radius
                   /\ centerX + o[1] >= 0 /\ centerX + o[1] < Width
                   /\ centerY + o[2] >= 0 /\ centerY + o[2] < Height } }
    ELSE PlotPoints(centerX, centerY, 0, radius)
         \cup CircleLoop(centerX, centerY, 0, radius, 3 - 2 * radius)

\* The pixels drawCircle writes.
CirclePixels(centerX, centerY, radius, filled) ==
    IF filled
    THEN { [x |-> centerX + ox, y |-> centerY + oy] :
             <<ox, oy>> \in
               { o \in ((-radius)..radius) \X ((-radius)..radius) :
                   /\ o[1] * o[1] + o[2] * o[2] <= radius * radius
                   /\ centerX + o[1] >= 0 /\ centerX + o[1] < Width
                   /\ centerY + o[2] >= 0 /\ centerY + o[2] < Height } }
    ELSE PlotPoints(centerX, centerY, 0, radius)
         \cup CircleLoop(centerX, centerY, 0, radius, 3 - 2 * radius)

\* drawCircle
DrawCircle(data, centerX, centerY, radius, color, filled) ==
    DrawPixels(data, CirclePixels(centerX, centerY, radius, filled), color)

\* Math.floor(Math.sqrt(n)) for an integer n >= 0
FloorSqrt(n) == CHOOSE r \in 0..n : r * r <= n /\ (r + 1) * (r + 1) > n


(***************************************************************************)
(* The state of the App component.                                         *)
(***************************************************************************)
VARIABLES
    mounted,          \* the initialising effect has run
    canvas,           \* the pixels of canvasRef.current
    history,          \* HistoryEntry[]: the imageData of each entry
    historyIndex,
    activeTool,
    foregroundColor,
    backgroundColor,
    isDrawing,
    startPoint,
    currentPoint,
    zoom,
    canvasData,       \* the persisted data URL, '' at first
    pendingLoads,     \* images created by loadCanvas, onload outstanding
    saveTimeout,      \* the timer id held in state, or null
    renderedTimeout,  \* the saveTimeout of the latest render's debouncedSave
    pendingTimers,    \* timers armed and neither fired nor cleared
    pendingImports,   \* images created by importPNG, onload outstanding
    hung,             \* a handler is in a loop that never ends
    events,           \* events and callbacks handled since the mount
    selection,        \* {start, end} or null; no code sets it
    clipboard,        \* ImageData or null; no code sets it
    raster            \* a call of one drawing function on its own (RasterSpec)

vars == <<mounted, canvas, history, historyIndex, activeTool, foregroundColor,
          backgroundColor, isDrawing, startPoint, currentPoint, zoom,
          canvasData, pendingLoads, saveTimeout, renderedTimeout,
          pendingTimers, pendingImports, hung, events, selection, clipboard,
          raster>>

Tools == {"pencil", "eraser", "fill", "line", "rectangle", "circle",
          "eyedropper", "select"}

\* Timer ids; an id is used again only when nothing refers to it any more.
\* The null of saveTimeout is 0, which is falsy like null and is no timer's id.
MaxTimers == 2
TimerIds == 1..MaxTimers
NoTimer == 0

\* A canvas element before anything is drawn: transparent black.
NewCanvas == [p \in Points |-> [r |-> 0, g |-> 0, b |-> 0]]

\* canvas.toDataURL(), and the image a data URL decodes to (PNG is lossless).
ToDataURL(data) == [png |-> data]
EmptyData == [png |-> <<>>]
ImageOf(dataUrl) == dataUrl.png

\* The image files a user imports: one of the canvas's dimensions (black on
\* the diagonal, red elsewhere) and one a column wider, all red.
ImportedImages ==
    { [width |-> Width, height |-> Height,
       pixels |-> [p \in Points |-> IF p.x = p.y THEN [r |-> 0, g |-> 0, b |-> 0]
                                    ELSE [r |-> 255, g |-> 0, b |-> 0]]],
      [width |-> Width + 1, height |-> Height,
       pixels |-> [p \in { [x |-> px, y |-> py] : px \in 0..Width, py \in Ys }
                     |-> [r |-> 255, g |-> 0, b |-> 0]]] }

\* drawImage(img, 0, 0) without the destination size: the image as it is.
DrawImage_NoResample(img) == img.pixels

\* ctx.clearRect, then ctx.drawImage(img, 0, 0, canvasSize.width,
\* canvasSize.height): the image resampled to the canvas's dimensions.  An
\* image of the canvas's dimensions is copied pixel for pixel; of another
\* image each canvas pixel takes the source pixel its corner maps to (the
\* browser's filter is its own choice, and every filter gives this result on
\* an image of one colour).
DrawImage(img) ==
    [p \in Points |->
       img.pixels[[x |-> (p.x * img.width) \div Width,
                   y |-> (p.y * img.height) \div Height]]]

\* The value of raster while no drawing function is examined on its own.
NoCall == [fn |-> "none"]

\* event.clientX - rect.left of pointer events: one position in each pixel
\* column (row), and one on either side of the canvas.
InsideOffsets(n) == { k * zoom + (zoom - 1) : k \in 0..(n - 1) }
AllOffsets(n) == { k * zoom + (zoom - 1) : k \in (-1)..n }

\* getPixelCoords without the clamp to the canvas.
GetPixelCoords_NoClamp(offsetX, offsetY) ==
    [x |-> offsetX \div zoom, y |-> offsetY \div zoom]

\* getPixelCoords
GetPixelCoords(offsetX, offsetY) ==
    [x |-> Max(0, Min(Width - 1, offsetX \div zoom)),
     y |-> Max(0, Min(Height - 1, offsetY \div zoom))]

\* The state of the App component before its first effect runs.
AppInit ==
    /\ mounted = FALSE
    /\ canvas = NewCanvas
    /\ history = <<>>
    /\ historyIndex = -1
    /\ activeTool = "pencil"
    /\ foregroundColor = Black
    /\ backgroundColor = White
    /\ isDrawing = FALSE
    /\ startPoint = [x |-> 0, y |-> 0]
    /\ currentPoint = [x |-> 0, y |-> 0]
    /\ zoom = 8
    /\ canvasData = EmptyData
    /\ pendingLoads = <<>>
    /\ saveTimeout = NoTimer
    /\ renderedTimeout = NoTimer
    /\ pendingTimers = {}
    /\ pendingImports = <<>>
    /\ hung = FALSE
    /\ events = 0
    /\ selection = NULL
    /\ clipboard = NULL

Init == AppInit /\ raster = NoCall

(***************************************************************************)
(* History.                                                                *)
(***************************************************************************)
\* Array.prototype.slice(0, n) for n >= 0
SliceTo(arr, n) == SubSeq(arr, 1, Min(n, Len(arr)))

\* Array.prototype.slice(-n): the last n elements
SliceLast(arr, n) == SubSeq(arr, Max(1, Len(arr) - n + 1), Len(arr))

\* The updater saveToHistory passes to setHistory; closureIndex is the
\* historyIndex of the render that created the callback.
NewHistory(prev, closureIndex, imageData) ==
    SliceLast(Append(SliceTo(prev, closureIndex + 1), imageData), HistoryCapacity)

\* saveToHistory, called with the canvas as the handler has left it.
SaveToHistory(closureIndex, imageData) ==
    /\ history' = NewHistory(history, closureIndex, imageData)
    /\ historyIndex' = historyIndex + 1

\* saveCanvas, and the effect that calls loadCanvas when canvasData changed.
SaveCanvas(imageData) ==
    /\ canvasData' = ToDataURL(imageData)
    /\ IF ToDataURL(imageData) # canvasData
       THEN /\ Len(pendingLoads) < MaxPendingLoads
            /\ pendingLoads' = Append(pendingLoads, ImageOf(ToDataURL(imageData)))
       ELSE pendingLoads' = pendingLoads

\* Every handler runs after the mount, while no handler is stuck in a loop.
Ready == mounted /\ ~hung /\ events < MaxEvents

Handled == events' = events + 1

\* The initialising effect: white background, then the first history entry.
Mount ==
    /\ ~mounted
    /\ mounted' = TRUE
    /\ canvas' = FillAll(White)
    /\ SaveToHistory(historyIndex, canvas')
    /\ UNCHANGED <<activeTool, foregroundColor, backgroundColor, isDrawing,
                   startPoint, currentPoint, zoom, canvasData, pendingLoads,
                   saveTimeout, pendingTimers, pendingImports, hung, events>>
    /\ UNCHANGED <<renderedTimeout, selection, clipboard, raster>>


(***************************************************************************)
(* Undo, redo, clear.                                                      *)
(***************************************************************************)
\* undo passes its guard.
UndoAccepted(index) == ~(index <= 0)

\* Reading history[historyIndex - 1] past the end of the array gives
\* undefined, and prevEntry.imageData then throws before anything is changed.
UndoThrows(hist, index) == UndoAccepted(index) /\ index - 1 >= Len(hist)

\* The canvas and the index undo leaves when it is accepted and does not throw.
UndoEffect(hist, index) ==
    [canvas |-> hist[(index - 1) + 1], historyIndex |-> index - 1]

\* redo passes its guard.
RedoAccepted(hist, index) == ~(index >= Len(hist) - 1)

\* RedoEffect with the entry at the index instead of the one after it.
RedoEffect_SameEntry(hist, index) ==
    [canvas |-> hist[index + 1], historyIndex |-> index + 1]

\* The canvas and the index redo leaves when it is accepted.
RedoEffect(hist, index) ==
    [canvas |-> hist[(index + 1) + 1], historyIndex |-> index + 1]

\* undo
Undo ==
    /\ Ready /\ Handled
    /\ IF ~UndoAccepted(historyIndex) \/ UndoThrows(history, historyIndex)
       THEN UNCHANGED <<canvas, historyIndex, canvasData, pendingLoads>>
       ELSE /\ canvas' = UndoEffect(history, historyIndex).canvas
            /\ historyIndex' = UndoEffect(history, historyIndex).historyIndex
            /\ SaveCanvas(canvas')
    /\ UNCHANGED <<mounted, history, activeTool, foregroundColor,
                   backgroundColor, isDrawing, startPoint, currentPoint, zoom,
                   saveTimeout, pendingTimers, pendingImports, hung>>
    /\ UNCHANGED <<renderedTimeout, selection, clipboard, raster>>

\* redo
Redo ==
    /\ Ready /\ Handled
    /\ IF ~RedoAccepted(history, historyIndex)
       THEN UNCHANGED <<canvas, historyIndex, canvasData, pendingLoads>>
       ELSE /\ canvas' = RedoEffect(history, historyIndex).canvas
            /\ historyIndex' = RedoEffect(history, historyIndex).historyIndex
            /\ SaveCanvas(canvas')
    /\ UNCHANGED <<mounted, history, activeTool, foregroundColor,
                   backgroundColor, isDrawing, startPoint, currentPoint, zoom,
                   saveTimeout, pendingTimers, pendingImports, hung>>
    /\ UNCHANGED <<renderedTimeout, selection, clipboard, raster>>

\* clearCanvas
ClearCanvas ==
    /\ Ready /\ Handled
    /\ canvas' = FillAll(backgroundColor)
    /\ SaveToHistory(historyIndex, canvas')
    /\ SaveCanvas(canvas')
    /\ UNCHANGED <<mounted, activeTool, foregroundColor, backgroundColor,
                   isDrawing, startPoint, currentPoint, zoom, saveTimeout,
                   pendingTimers, pendingImports, hung>>
    /\ UNCHANGED <<renderedTimeout, selection, clipboard, raster>>

(***************************************************************************)
(* Tool and colour selection.                                              *)
(***************************************************************************)
\* setActiveTool: keys 1-8 and the toolbar buttons
SetActiveTool(tool) ==
    /\ Ready /\ Handled
    /\ activeTool' = tool
    /\ UNCHANGED <<mounted, canvas, history, historyIndex, foregroundColor,
                   backgroundColor, isDrawing, startPoint, currentPoint, zoom,
                   canvasData, pendingLoads, saveTimeout, pendingTimers,
                   pendingImports, hung>>
    /\ UNCHANGED <<renderedTimeout, selection, clipboard, raster>>

\* setForegroundColor from a palette swatch or the colour picker
SetForegroundColor(color) ==
    /\ Ready /\ Handled
    /\ foregroundColor' = color
    /\ UNCHANGED <<mounted, canvas, history, historyIndex, activeTool,
                   backgroundColor, isDrawing, startPoint, currentPoint, zoom,
                   canvasData, pendingLoads, saveTimeout, pendingTimers,
                   pendingImports, hung>>
    /\ UNCHANGED <<renderedTimeout, selection, clipboard, raster>>

\* setBackgroundColor from a palette swatch (context menu) or the colour picker
SetBackgroundColor(color) ==
    /\ Ready /\ Handled
    /\ backgroundColor' = color
    /\ UNCHANGED <<mounted, canvas, history, historyIndex, activeTool,
                   foregroundColor, isDrawing, startPoint, currentPoint, zoom,
                   canvasData, pendingLoads, saveTimeout, pendingTimers,
                   pendingImports, hung>>
    /\ UNCHANGED <<renderedTimeout, selection, clipboard, raster>>

\* swapColors
SwapColors ==
    /\ Ready /\ Handled
    /\ foregroundColor' = backgroundColor
    /\ backgroundColor' = foregroundColor
    /\ UNCHANGED <<mounted, canvas, history, historyIndex, activeTool,
                   isDrawing, startPoint, currentPoint, zoom, canvasData,
                   pendingLoads, saveTimeout, pendingTimers, pendingImports,
                   hung>>
    /\ UNCHANGED <<renderedTimeout, selection, clipboard, raster>>

(***************************************************************************)
(* Mouse handlers of the canvas.                                           *)
(***************************************************************************)
\* What floodFill leaves on the canvas for a press of the fill tool at point.
FillAt(data, point, color) ==
    FloodFill(data, point.x, point.y, GetPixelColor(data, point.x, point.y), color)

\* handleMouseDown
HandleMouseDown(offsetX, offsetY) ==
    LET point == GetPixelCoords(offsetX, offsetY)
    IN  /\ Ready /\ Handled
        /\ IF activeTool = "fill" /\ ~FillAt(canvas, point, foregroundColor).returns
           THEN /\ hung' = TRUE
                /\ UNCHANGED <<canvas, history, historyIndex, foregroundColor,
                               isDrawing, startPoint, currentPoint, canvasData,
                               pendingLoads>>
           ELSE /\ startPoint' = point
                /\ currentPoint' = point
                /\ isDrawing' = TRUE
                /\ hung' = hung
                /\ CASE activeTool = "eyedropper" ->
                          /\ foregroundColor' = GetPixelColor(canvas, point.x, point.y)
                          /\ UNCHANGED <<canvas, history, historyIndex,
                                         canvasData, pendingLoads>>
                     [] activeTool = "fill" ->
                          /\ canvas' = FillAt(canvas, point, foregroundColor).data
                          /\ SaveToHistory(historyIndex, canvas')
                          /\ SaveCanvas(canvas')
                          /\ UNCHANGED foregroundColor
                     [] activeTool = "pencil" ->
                          /\ canvas' = DrawPixel(canvas, point.x, point.y,
                                                 foregroundColor)
                          /\ UNCHANGED <<history, historyIndex, foregroundColor,
                                         canvasData, pendingLoads>>
                     [] activeTool = "eraser" ->
                          /\ canvas' = DrawPixel(canvas, point.x, point.y,
                                                 backgroundColor)
                          /\ UNCHANGED <<history, historyIndex, foregroundColor,
                                         canvasData, pendingLoads>>
                     [] OTHER ->
                          UNCHANGED <<canvas, history, historyIndex,
                                      foregroundColor, canvasData, pendingLoads>>
        /\ UNCHANGED <<mounted, activeTool, backgroundColor, zoom, saveTimeout,
                       pendingTimers, pendingImports>>
        /\ UNCHANGED <<renderedTimeout, selection, clipboard, raster>>

\* debouncedSave: clear the timer its closure holds (the saveTimeout of the
\* render that created it), arm a new one, keep its id in state.
DebouncedSave ==
    LET live == pendingTimers \ {renderedTimeout}
        free == { t \in TimerIds : t \notin pendingTimers
                                     /\ t \notin {saveTimeout, renderedTimeout} }
        id == CHOOSE t \in free : TRUE
    IN  /\ free # {}
        /\ pendingTimers' = live \cup {id}
        /\ saveTimeout' = id

\* handleMouseMove; the render that follows it is the caller's.
HandleMouseMove(offsetX, offsetY) ==
    LET point == GetPixelCoords(offsetX, offsetY)
    IN  /\ Ready /\ Handled
        /\ IF ~isDrawing
           THEN UNCHANGED <<canvas, currentPoint, saveTimeout, pendingTimers>>
           ELSE /\ currentPoint' = point
                /\ CASE activeTool = "pencil" ->
                          /\ canvas' = DrawPixel(canvas, point.x, point.y,
                                                 foregroundColor)
                          /\ DebouncedSave
                     [] activeTool = "eraser" ->
                          /\ canvas' = DrawPixel(canvas, point.x, point.y,
                                                 backgroundColor)
                          /\ DebouncedSave
                     [] OTHER ->
                          UNCHANGED <<canvas, saveTimeout, pendingTimers>>
        /\ UNCHANGED <<mounted, history, historyIndex, activeTool,
                       foregroundColor, backgroundColor, isDrawing, startPoint,
                       zoom, canvasData, pendingLoads, pendingImports, hung>>
        /\ UNCHANGED <<selection, clipboard, raster>>

\* ReleaseCanvas with the x and y of the release point exchanged.
ReleaseCanvas_SwappedXY(data, tool, start, point, color) ==
    CASE tool = "line" -> DrawLine(data, start.x, start.y, point.y, point.x, color)
      [] tool = "rectangle" ->
           DrawRect(data, start.x, start.y, point.y, point.x, color, FALSE)
      [] tool = "circle" ->
           DrawCircle(data, start.x, start.y,
                      FloorSqrt((point.y - start.x) * (point.y - start.x)
                                + (point.x - start.y) * (point.x - start.y)),
                      color, FALSE)
      [] OTHER -> data

\* The canvas handleMouseUp leaves for a release at point.
ReleaseCanvas(data, tool, start, point, color) ==
    CASE tool = "line" -> DrawLine(data, start.x, start.y, point.x, point.y, color)
      [] tool = "rectangle" ->
           DrawRect(data, start.x, start.y, point.x, point.y, color, FALSE)
      [] tool = "circle" ->
           DrawCircle(data, start.x, start.y,
                      FloorSqrt((point.x - start.x) * (point.x - start.x)
                                + (point.y - start.y) * (point.y - start.y)),
                      color, FALSE)
      [] OTHER -> data

\* handleMouseUp without its `if (!isDrawing) return`.
HandleMouseUp_NoGuard(offsetX, offsetY) ==
    LET point == GetPixelCoords(offsetX, offsetY)
    IN  /\ Ready /\ Handled
        /\ isDrawing' = FALSE
        /\ canvas' = ReleaseCanvas(canvas, activeTool, startPoint, point,
                                   foregroundColor)
        /\ SaveToHistory(historyIndex, canvas')
        /\ SaveCanvas(canvas')
        /\ UNCHANGED <<mounted, activeTool, foregroundColor, backgroundColor,
                       startPoint, currentPoint, zoom, saveTimeout,
                       pendingTimers, pendingImports, hung>>
        /\ UNCHANGED <<renderedTimeout, selection, clipboard, raster>>

\* handleMouseUp, the handler of both onMouseUp and onMouseLeave
HandleMouseUp(offsetX, offsetY) ==
    LET point == GetPixelCoords(offsetX, offsetY)
    IN  /\ Ready /\ Handled
        /\ IF ~isDrawing
           THEN UNCHANGED <<canvas, history, historyIndex, isDrawing,
                            canvasData, pendingLoads>>
           ELSE /\ isDrawing' = FALSE
                /\ canvas' = ReleaseCanvas(canvas, activeTool, startPoint, point,
                                           foregroundColor)
                /\ SaveToHistory(historyIndex, canvas')
                /\ SaveCanvas(canvas')
        /\ UNCHANGED <<mounted, activeTool, foregroundColor, backgroundColor,
                       startPoint, currentPoint, zoom, saveTimeout,
                       pendingTimers, pendingImports, hung>>
        /\ UNCHANGED <<renderedTimeout, selection, clipboard, raster>>

\* onMouseDown, onMouseMove, onMouseUp: the pointer is over the canvas.
MouseDown == \E ox \in InsideOffsets(Width), oy \in InsideOffsets(Height) :
                 HandleMouseDown(ox, oy)
\* A move, and the render its setSaveTimeout causes, before the next event.
MouseMove == \E ox \in InsideOffsets(Width), oy \in InsideOffsets(Height) :
                 /\ HandleMouseMove(ox, oy)
                 /\ renderedTimeout' = saveTimeout'
MouseUp == \E ox \in InsideOffsets(Width), oy \in InsideOffsets(Height) :
               HandleMouseUp(ox, oy)
\* onMouseLeave: the pointer has left the canvas on some side.
MouseLeave == \E ox \in AllOffsets(Width), oy \in AllOffsets(Height) :
                  /\ ox \notin InsideOffsets(Width) \/ oy \notin InsideOffsets(Height)
                  /\ HandleMouseUp(ox, oy)

(***************************************************************************)
(* Asynchronous callbacks.                                                 *)
(***************************************************************************)
\* Removal of the i-th element of a sequence.
RemoveAt(seq, i) == SubSeq(seq, 1, i - 1) \o SubSeq(seq, i + 1, Len(seq))

\* img.onload of loadCanvas: clearRect, then drawImage of the persisted image.
LoadCanvasOnload(i) ==
    /\ Ready /\ Handled
    /\ i \in 1..Len(pendingLoads)
    /\ canvas' = pendingLoads[i]
    /\ pendingLoads' = RemoveAt(pendingLoads, i)
    /\ UNCHANGED <<mounted, history, historyIndex, activeTool, foregroundColor,
                   backgroundColor, isDrawing, startPoint, currentPoint, zoom,
                   canvasData, saveTimeout, pendingTimers, pendingImports, hung>>
    /\ UNCHANGED <<renderedTimeout, selection, clipboard, raster>>

\* The timer's callback with a saveToHistory before its saveCanvas.
SaveTimerFires_Captures(id) ==
    /\ Ready /\ Handled
    /\ id \in pendingTimers
    /\ pendingTimers' = pendingTimers \ {id}
    /\ SaveToHistory(historyIndex, canvas)
    /\ SaveCanvas(canvas)
    /\ UNCHANGED <<mounted, canvas, activeTool, foregroundColor,
                   backgroundColor, isDrawing, startPoint, currentPoint, zoom,
                   saveTimeout, pendingImports, hung>>
    /\ UNCHANGED <<renderedTimeout, selection, clipboard, raster>>

\* The callback debouncedSave passed to setTimeout.
SaveTimerFires(id) ==
    /\ Ready /\ Handled
    /\ id \in pendingTimers
    /\ pendingTimers' = pendingTimers \ {id}
    /\ SaveCanvas(canvas)
    /\ UNCHANGED <<mounted, canvas, history, historyIndex, activeTool,
                   foregroundColor, backgroundColor, isDrawing, startPoint,
                   currentPoint, zoom, saveTimeout, pendingImports, hung>>
    /\ UNCHANGED <<renderedTimeout, selection, clipboard, raster>>

\* importPNG: the file is read and decoded in the background; the callbacks
\* keep the saveToHistory of the render in which the file was chosen.
ImportPNG(img) ==
    /\ Ready /\ Handled
    /\ Len(pendingImports) < MaxPendingImports
    /\ pendingImports' = Append(pendingImports,
                                [img |-> img, historyIndex |-> historyIndex])
    /\ UNCHANGED <<mounted, canvas, history, historyIndex, activeTool,
                   foregroundColor, backgroundColor, isDrawing, startPoint,
                   currentPoint, zoom, canvasData, pendingLoads, saveTimeout,
                   pendingTimers, hung>>
    /\ UNCHANGED <<renderedTimeout, selection, clipboard, raster>>

\* img.onload of importPNG
ImportOnload(i) ==
    /\ Ready /\ Handled
    /\ i \in 1..Len(pendingImports)
    /\ canvas' = DrawImage(pendingImports[i].img)
    /\ SaveToHistory(pendingImports[i].historyIndex, canvas')
    /\ SaveCanvas(canvas')
    /\ pendingImports' = RemoveAt(pendingImports, i)
    /\ UNCHANGED <<mounted, activeTool, foregroundColor, backgroundColor,
                   isDrawing, startPoint, currentPoint, zoom, saveTimeout,
                   pendingTimers, hung>>
    /\ UNCHANGED <<renderedTimeout, selection, clipboard, raster>>

\* handleKeyDown with ctrlKey or metaKey and a key other than z and y (the
\* copy and paste keys c and v among them): the switch has no case for it.
CtrlKeys == {"c", "v"}
CtrlKeyDown(key) ==
    /\ Ready /\ Handled
    /\ key \in CtrlKeys
    /\ UNCHANGED <<mounted, canvas, history, historyIndex, activeTool,
                   foregroundColor, backgroundColor, isDrawing, startPoint,
                   currentPoint, zoom, canvasData, pendingLoads, saveTimeout,
                   pendingTimers, pendingImports, hung>>
    /\ UNCHANGED <<renderedTimeout, selection, clipboard, raster>>

SelectableColors == DEFAULT_PALETTE \cup PickerColors

Next ==
    \/ Mount
    \/ Undo
    \/ Redo
    \/ ClearCanvas
    \/ \E tool \in Tools : SetActiveTool(tool)
    \/ \E color \in SelectableColors : SetForegroundColor(color)
    \/ \E color \in SelectableColors : SetBackgroundColor(color)
    \/ SwapColors
    \/ MouseDown
    \/ MouseMove
    \/ MouseUp
    \/ MouseLeave
    \/ \E i \in 1..MaxPendingLoads : LoadCanvasOnload(i)
    \/ \E id \in TimerIds : SaveTimerFires(id)
    \/ \E img \in ImportedImages : ImportPNG(img)
    \/ \E i \in 1..MaxPendingImports : ImportOnload(i)
    \/ \E key \in CtrlKeys : CtrlKeyDown(key)

Spec == Init /\ [][Next]_vars

(***************************************************************************)
(* Zoom.  Spec keeps the zoom of the first render: the pointer positions   *)
(* it draws from are one per pixel column and row at whatever the zoom is. *)
(* ZoomSpec is the component with its zoom keys and buttons and the        *)
(* pointer handlers, which read zoom in getPixelCoords.                    *)
(***************************************************************************)
\* handleKeyDown, keys '+' and '=': setZoom(prev => Math.min(16, prev + 1))
ZoomInKey ==
    /\ Ready /\ Handled
    /\ zoom' = Min(16, zoom + 1)
    /\ UNCHANGED <<mounted, canvas, history, historyIndex, activeTool,
                   foregroundColor, backgroundColor, isDrawing, startPoint,
                   currentPoint, canvasData, pendingLoads, saveTimeout,
                   pendingTimers, pendingImports, hung>>
    /\ UNCHANGED <<renderedTimeout, selection, clipboard, raster>>

\* handleKeyDown, key '-': setZoom(prev => Math.max(1, prev - 1))
ZoomOutKey ==
    /\ Ready /\ Handled
    /\ zoom' = Max(1, zoom - 1)
    /\ UNCHANGED <<mounted, canvas, history, historyIndex, activeTool,
                   foregroundColor, backgroundColor, isDrawing, startPoint,
                   currentPoint, canvasData, pendingLoads, saveTimeout,
                   pendingTimers, pendingImports, hung>>
    /\ UNCHANGED <<renderedTimeout, selection, clipboard, raster>>

\* The toolbar's '+' button: setZoom(Math.min(16, zoom + 1))
ZoomInButton ==
    /\ Ready /\ Handled
    /\ zoom' = Min(16, zoom + 1)
    /\ UNCHANGED <<mounted, canvas, history, historyIndex, activeTool,
                   foregroundColor, backgroundColor, isDrawing, startPoint,
                   currentPoint, canvasData, pendingLoads, saveTimeout,
                   pendingTimers, pendingImports, hung>>
    /\ UNCHANGED <<renderedTimeout, selection, clipboard, raster>>

\* The toolbar's '-' button: setZoom(Math.max(1, zoom - 1))
ZoomOutButton ==
    /\ Ready /\ Handled
    /\ zoom' = Max(1, zoom - 1)
    /\ UNCHANGED <<mounted, canvas, history, historyIndex, activeTool,
                   foregroundColor, backgroundColor, isDrawing, startPoint,
                   currentPoint, canvasData, pendingLoads, saveTimeout,
                   pendingTimers, pendingImports, hung>>
    /\ UNCHANGED <<renderedTimeout, selection, clipboard, raster>>

ZoomNext ==
    \/ Mount
    \/ ZoomInKey
    \/ ZoomOutKey
    \/ ZoomInButton
    \/ ZoomOutButton
    \/ MouseDown
    \/ MouseMove
    \/ MouseUp

ZoomSpec == Init /\ [][ZoomNext]_vars

(***************************************************************************)
(* Moves handled before the component renders again.  React renders after  *)
(* a mousemove from its scheduler, not within the event, so a mousemove    *)
(* that is already queued is handled by the handlers of the same render,   *)
(* whose debouncedSave holds the same saveTimeout.  BurstSpec is a pencil or     *)
(* eraser drag in which a move may be handled before the render; every     *)
(* other handler runs on the latest render, as in Spec.                    *)
(***************************************************************************)
\* A move that is handled before the render of the move before it.
MouseMoveBeforeRender ==
    \E ox \in InsideOffsets(Width), oy \in InsideOffsets(Height) :
        /\ HandleMouseMove(ox, oy)
        /\ UNCHANGED renderedTimeout

\* The render: debouncedSave is created again, on the saveTimeout in state.
Render ==
    /\ mounted
    /\ renderedTimeout # saveTimeout
    /\ renderedTimeout' = saveTimeout
    /\ UNCHANGED <<mounted, canvas, history, historyIndex, activeTool,
                   foregroundColor, backgroundColor, isDrawing, startPoint,
                   currentPoint, zoom, canvasData, pendingLoads, saveTimeout,
                   pendingTimers, pendingImports, hung, events, selection,
                   clipboard, raster>>

\* A press, a release and a tool change run on the latest render.
RenderedMouseDown == renderedTimeout = saveTimeout /\ MouseDown
RenderedMouseUp == renderedTimeout = saveTimeout /\ MouseUp
RenderedSetActiveTool ==
    /\ renderedTimeout = saveTimeout
    /\ \E tool \in {"pencil", "eraser"} : SetActiveTool(tool)

BurstNext ==
    \/ Mount
    \/ RenderedSetActiveTool
    \/ RenderedMouseDown
    \/ MouseMove
    \/ MouseMoveBeforeRender
    \/ Render
    \/ RenderedMouseUp
    \/ \E i \in 1..MaxPendingLoads : LoadCanvasOnload(i)
    \/ \E id \in TimerIds : SaveTimerFires(id)

BurstSpec == Init /\ [][BurstNext]_vars


(***************************************************************************)
(* The coordinates at which the handlers read or write the canvas: the     *)
(* arguments of getPixelColor and drawPixel, and the points whose channels *)
(* floodFill reads and writes in the image data.                           *)
(***************************************************************************)
\* handleMouseDown at point
DownCoords(tool, data, point, color) ==
    CASE tool = "eyedropper" -> {point}
      [] tool = "fill" -> {point} \cup FillAt(data, point, color).reads
      [] tool \in {"pencil", "eraser"} -> {point}
      [] OTHER -> {}

\* handleMouseMove at point
MoveCoords(tool, drawing, point) ==
    IF drawing /\ tool \in {"pencil", "eraser"} THEN {point} ELSE {}

\* handleMouseUp at point
UpCoords(tool, drawing, start, point) ==
    CASE drawing /\ tool = "line" ->
           Range(LinePath(start.x, start.y, point.x, point.y).path)
      [] drawing /\ tool = "rectangle" ->
           RectPixels(start.x, start.y, point.x, point.y, FALSE)
      [] drawing /\ tool = "circle" ->
           CirclePixels(start.x, start.y,
                        FloorSqrt((point.x - start.x) * (point.x - start.x)
                                  + (point.y - start.y) * (point.y - start.y)),
                        FALSE)
      [] OTHER -> {}

(***************************************************************************)
(* The drawing functions on their own: one call of floodFill, drawLine,    *)
(* drawRect or drawCircle with arguments drawn from bounded sets, on a     *)
(* canvas of the model's dimensions.  raster holds the call and, once it   *)
(* has run, what it did.                                                   *)
(***************************************************************************)
\* Endpoints of the lines: -1..MaxCoord in each axis.
MaxCoord == 5
LineCoords == (-1)..MaxCoord
\* Corners and centres of the shapes: in the canvas and one pixel around it.
ShapeCoords == (-1)..Max(Width, Height)
\* Radii of the circles.
MaxRadius == 3

Red == <<"#", "F", "F", "0", "0", "0", "0">>

\* Canvases of white and red pixels.
TwoColorGrids == [Points -> {HexToRgb(White), HexToRgb(Red)}]
\* The all-white canvas and one with red off the diagonal.
ShapeGrids == { FillAll(White),
                [p \in Points |-> IF p.x = p.y THEN HexToRgb(White)
                                  ELSE HexToRgb(Red)] }

\* The foreground colours there can be: palette swatches, colour-picker
\* values, and what the eyedropper reads back (getPixelColor's lower case).
ForegroundColors ==
    DEFAULT_PALETTE \cup PickerColors
    \cup { GetPixelColor(FillAll(c), 0, 0) : c \in DEFAULT_PALETTE }

FloodFillCalls ==
    { [fn |-> "floodFill", done |-> FALSE, out |-> NULL,
       a |-> [data |-> d, point |-> pt, color |-> c]] :
        d \in TwoColorGrids, pt \in Points, c \in ForegroundColors }
DrawLineCalls ==
    { [fn |-> "drawLine", done |-> FALSE, out |-> NULL,
       a |-> [data |-> FillAll(White), x0 |-> c[1], y0 |-> c[2],
              x1 |-> c[3], y1 |-> c[4], color |-> Black]] :
        c \in LineCoords \X LineCoords \X LineCoords \X LineCoords }
DrawRectCalls ==
    { [fn |-> "drawRect", done |-> FALSE, out |-> NULL,
       a |-> [data |-> d, x0 |-> c[1], y0 |-> c[2], x1 |-> c[3], y1 |-> c[4],
              color |-> Black, filled |-> f]] :
        d \in ShapeGrids, f \in BOOLEAN,
        c \in ShapeCoords \X ShapeCoords \X ShapeCoords \X ShapeCoords }
DrawCircleCalls ==
    { [fn |-> "drawCircle", done |-> FALSE, out |-> NULL,
       a |-> [data |-> d, centerX |-> c[1], centerY |-> c[2], radius |-> c[3],
              color |-> Black, filled |-> f]] :
        d \in ShapeGrids, f \in BOOLEAN,
        c \in ShapeCoords \X ShapeCoords \X (0..MaxRadius) }

RasterInit ==
    /\ AppInit
    /\ raster \in FloodFillCalls \cup DrawLineCalls \cup DrawRectCalls
                  \cup DrawCircleCalls

\* The call runs and raster keeps what it did.
Ran(out) ==
    /\ ~raster.done
    /\ raster' = [raster EXCEPT !.done = TRUE, !.out = out]
    /\ UNCHANGED <<mounted, canvas, history, historyIndex, activeTool,
                   foregroundColor, backgroundColor, isDrawing, startPoint,
                   currentPoint, zoom, canvasData, pendingLoads, saveTimeout,
                   pendingTimers, pendingImports, hung, events, selection,
                   clipboard, renderedTimeout>>

\* floodFill as handleMouseDown calls it: the target is the seed's colour.
RunFloodFill ==
    /\ raster.fn = "floodFill"
    /\ Ran(FillAt(raster.a.data, raster.a.point, raster.a.color))

\* drawLine: the points it plots, and the canvas it leaves.
RunDrawLine ==
    /\ raster.fn = "drawLine"
    /\ Ran([line |-> LinePath(raster.a.x0, raster.a.y0, raster.a.x1, raster.a.y1),
            data |-> DrawLine(raster.a.data, raster.a.x0, raster.a.y0,
                              raster.a.x1, raster.a.y1, raster.a.color)])

\* drawRect
RunDrawRect ==
    /\ raster.fn = "drawRect"
    /\ Ran([pixels |-> RectPixels(raster.a.x0, raster.a.y0, raster.a.x1,
                                  raster.a.y1, raster.a.filled),
            data |-> DrawRect(raster.a.data, raster.a.x0, raster.a.y0, raster.a.x1,
                              raster.a.y1, raster.a.color, raster.a.filled)])

\* drawCircle
RunDrawCircle ==
    /\ raster.fn = "drawCircle"
    /\ Ran([data |-> DrawCircle(raster.a.data, raster.a.centerX, raster.a.centerY,
                                raster.a.radius, raster.a.color, raster.a.filled)])

RasterNext == RunFloodFill \/ RunDrawLine \/ RunDrawRect \/ RunDrawCircle

RasterSpec == RasterInit /\ [][RasterNext]_vars


(***************************************************************************)
(* Steps of the handlers that the claims speak about.                      *)
(***************************************************************************)
ShapeTools == {"line", "rectangle", "circle"}

\* A release or a leave: both run handleMouseUp.
ReleaseOrLeave == MouseUp \/ MouseLeave

\* A step in which saveToHistory runs.
CaptureStep ==
    \/ Mount
    \/ ClearCanvas
    \/ \E i \in 1..MaxPendingImports : ImportOnload(i)
    \/ isDrawing /\ ~isDrawing' /\ ReleaseOrLeave
    \/ activeTool = "fill" /\ MouseDown /\ ~hung'

\* history' is history cut after the entry at index, with entry appended and
\* the oldest entries dropped down to the capacity.
AppendedOnce(index, entry) ==
    LET kept == Min(Max(index + 1, 0), Len(history))
        dropped == Max(kept + 1 - HistoryCapacity, 0)
    IN  /\ Len(history') = kept + 1 - dropped
        /\ history'[Len(history')] = entry
        /\ \A k \in 1..(Len(history') - 1) : history'[k] = history[k + dropped]

NoCapture == history' = history /\ historyIndex' = historyIndex

(***************************************************************************)
(* C1.  In every reachable state -1 <= historyIndex <= Len(history) - 1,   *)
(* also after the capacity is exceeded and the oldest entry is evicted.    *)
(* The code evicts without rebasing the index.                             *)
(***************************************************************************)
C1_IndexInRange ==
    historyIndex >= -1 /\ historyIndex <= Len(history) - 1

(***************************************************************************)
(* C2.  A capture made when the history is full and the index is at the    *)
(* newest entry leaves exactly HistoryCapacity entries, the former ones    *)
(* without the oldest followed by the new one, and the index at the newest *)
(* entry (HistoryCapacity - 1).                                            *)
(***************************************************************************)
C2_EvictionKeepsIndexAtNewest ==
    [][ (CaptureStep /\ Len(history) = HistoryCapacity
                     /\ historyIndex = HistoryCapacity - 1)
        => /\ Len(history') = HistoryCapacity
           /\ history' = Append(Tail(history), canvas')
           /\ historyIndex' = HistoryCapacity - 1 ]_vars

(***************************************************************************)
(* C3.  undo at index <= 0 and redo at index >= length - 1 change neither  *)
(* the buffer, the entries nor the index; an undo at index > 0 decrements  *)
(* the index and puts the entry at the new index, which exists, into the   *)
(* buffer.                                                                 *)
(***************************************************************************)
C3_UndoRedoBoundaries ==
    [][ /\ (Undo /\ historyIndex <= 0)
           => (canvas' = canvas /\ NoCapture)
        /\ (Redo /\ historyIndex >= Len(history) - 1)
           => (canvas' = canvas /\ NoCapture)
        /\ (Undo /\ historyIndex > 0)
           => /\ historyIndex' = historyIndex - 1
              /\ historyIndex' + 1 \in 1..Len(history)
              /\ canvas' = history[historyIndex' + 1]
              /\ history' = history ]_vars


(***************************************************************************)
(* C4.  The mount leaves exactly one entry, the all-background buffer, at  *)
(* index 0.  An accepted undo puts the entry before the index into the     *)
(* buffer and an accepted redo the entry after it, so that after a single  *)
(* capture beyond the initial entry undo restores the all-background       *)
(* buffer and redo the edited one; and an undo followed by a redo returns  *)
(* the index to its value and the buffer to the entry at that index, which *)
(* is the buffer before the undo whenever the buffer was equal to that     *)
(* entry.                                                                  *)
(***************************************************************************)
C4_RoundTripFromEntry ==
    (mounted /\ UndoAccepted(historyIndex) /\ ~UndoThrows(history, historyIndex))
    => LET u == UndoEffect(history, historyIndex)
       IN  /\ u.historyIndex = historyIndex - 1
           /\ u.canvas = history[u.historyIndex + 1]
           /\ (historyIndex = 1 /\ history[1] = FillAll(backgroundColor))
              => u.canvas = FillAll(backgroundColor)
           /\ RedoAccepted(history, u.historyIndex)
              => LET r == RedoEffect(history, u.historyIndex)
                 IN  /\ r.historyIndex = historyIndex
                     /\ r.canvas = history[historyIndex + 1]
                     /\ (canvas = history[historyIndex + 1]) => (r.canvas = canvas)

C5_CaptureLeavesIndexAtNewEntry ==
    [][ CaptureStep
        => /\ AppendedOnce(historyIndex, canvas')
           /\ historyIndex' = Len(history') - 1
           /\ ~RedoAccepted(history', historyIndex') ]_vars

(***************************************************************************)
(* C6.  A press of the fill tool fills, captures once and does not enter   *)
(* the dragging state; the release or leave that follows captures nothing. *)
(***************************************************************************)
C6_FillIsSingleStep ==
    [][ activeTool = "fill"
        => /\ (MouseDown /\ ~hung')
              => /\ ~isDrawing'
                 /\ AppendedOnce(historyIndex, canvas')
           /\ ReleaseOrLeave => NoCapture ]_vars

(***************************************************************************)
(* C7.  With the line, rectangle or circle tool the press and the moves    *)
(* capture nothing; a release or leave while drawing writes the shape,     *)
(* appends exactly one entry, the canvas with the shape, and ends the      *)
(* drawing; a release or leave while not drawing captures nothing.         *)
(***************************************************************************)
C7_ShapeGestureCapturesOnce ==
    [][ (activeTool \in ShapeTools)
        => /\ MouseDown => NoCapture
           /\ MouseMove => NoCapture
           /\ (isDrawing /\ ~isDrawing' /\ ReleaseOrLeave)
              => /\ AppendedOnce(historyIndex, canvas')
                 /\ historyIndex' = historyIndex + 1
                 /\ ~isDrawing'
                 /\ (\E pt \in Points :
                       canvas' = ReleaseCanvas(canvas, activeTool, startPoint, pt,
                                               foregroundColor))
           /\ (~isDrawing /\ ReleaseOrLeave) => NoCapture ]_vars

\* A line gesture with a move, released: one entry after the initial one.
C7_Witness ==
    /\ activeTool = "line"
    /\ ~isDrawing
    /\ currentPoint # startPoint
    /\ historyIndex = 1
    /\ history = << FillAll(White), canvas >>
    /\ canvas = DrawLine(FillAll(White), 0, 0, 1, 1, Black)

(***************************************************************************)
(* C8.  With the eyedropper a press sets the foreground colour to the      *)
(* colour of the pixel at the clamped point; press, move, release and      *)
(* leave change no pixel and capture nothing.                              *)
(***************************************************************************)
C8_EyedropperOnlyReads ==
    [][ activeTool = "eyedropper"
        => /\ (\A ox \in InsideOffsets(Width), oy \in InsideOffsets(Height) :
                 HandleMouseDown(ox, oy)
                 => /\ HexToRgb(foregroundColor') = canvas[GetPixelCoords(ox, oy)]
                    /\ canvas' = canvas
                    /\ NoCapture)
           /\ MouseMove => (canvas' = canvas /\ NoCapture)
           /\ ReleaseOrLeave => (canvas' = canvas /\ NoCapture) ]_vars

\* The outline shape of tool from start to pt, in color.
ShapeWritten(data, tool, start, pt, color) ==
    CASE tool = "line" -> DrawLine(data, start.x, start.y, pt.x, pt.y, color)
      [] tool = "rectangle" ->
           DrawPixels(data, RectPixels(start.x, start.y, pt.x, pt.y, FALSE), color)
      [] tool = "circle" ->
           DrawPixels(data,
                      CirclePixels(start.x, start.y,
                                   FloorSqrt((pt.x - start.x) * (pt.x - start.x)
                                             + (pt.y - start.y) * (pt.y - start.y)),
                                   FALSE),
                      color)

(***************************************************************************)
(* C9.  With the line, rectangle or circle tool a press records the press  *)
(* point and changes no pixel, a move changes no pixel and keeps the press *)
(* point, and a release or leave while drawing changes the canvas to the   *)
(* canvas with the shape from the press point to the clamped release point.*)
(***************************************************************************)
C9_ShapeWrittenOnlyAtRelease ==
    [][ (activeTool \in ShapeTools)
        => /\ (\A ox \in InsideOffsets(Width), oy \in InsideOffsets(Height) :
                 HandleMouseDown(ox, oy)
                 => /\ canvas' = canvas
                    /\ startPoint' = GetPixelCoords(ox, oy)
                    /\ isDrawing')
           /\ MouseMove => (canvas' = canvas /\ startPoint' = startPoint)
           /\ (\A ox \in AllOffsets(Width), oy \in AllOffsets(Height) :
                 (isDrawing /\ HandleMouseUp(ox, oy))
                 => canvas' = ShapeWritten(canvas, activeTool, startPoint,
                                           GetPixelCoords(ox, oy), foregroundColor))
           /\ (~isDrawing /\ ReleaseOrLeave) => canvas' = canvas ]_vars

\* A circle gesture from (0,0) with a move, released one pixel away: the
\* circle of radius 1 is on the canvas and its centre is untouched.
C9_Witness ==
    /\ activeTool = "circle"
    /\ ~isDrawing
    /\ startPoint = [x |-> 0, y |-> 0]
    /\ currentPoint # startPoint
    /\ canvas = DrawPixels(FillAll(White),
                           {[x |-> 1, y |-> 0], [x |-> 0, y |-> 1]}, Black)
    /\ history[Len(history)] = canvas

(***************************************************************************)
(* C10.  A leave while drawing has the effect of a release at the last     *)
(* point reported by the preceding press or move (currentPoint): the same  *)
(* pixels, one capture, drawing ended; and a move while not drawing        *)
(* changes no pixel.                                                       *)
(***************************************************************************)
C10_LeaveReleasesAtLastPoint ==
    [][ /\ (isDrawing /\ MouseLeave)
           => /\ canvas' = ReleaseCanvas(canvas, activeTool, startPoint,
                                         currentPoint, foregroundColor)
              /\ AppendedOnce(historyIndex, canvas')
              /\ ~isDrawing'
        /\ (~isDrawing /\ MouseMove) => canvas' = canvas ]_vars

(***************************************************************************)
(* C11.  Whatever the tool and wherever the pointer is, inside the canvas  *)
(* or beside it, the point of a press, a move or a release is a point of   *)
(* the canvas, and so is every coordinate at which the handler of that     *)
(* event reads or writes the canvas: the pixel picked or drawn, the points *)
(* the flood fill tests, and the pixels of the line, rectangle or circle.  *)
(***************************************************************************)
C11_GestureCoordsInCanvas ==
    mounted =>
      /\ startPoint \in Points
      /\ currentPoint \in Points
      /\ \A ox \in AllOffsets(Width), oy \in AllOffsets(Height) :
           LET point == GetPixelCoords(ox, oy)
           IN  /\ point \in Points
               /\ DownCoords(activeTool, canvas, point, foregroundColor)
                    \subseteq Points
               /\ MoveCoords(activeTool, isDrawing, point) \subseteq Points
               /\ UpCoords(activeTool, isDrawing, startPoint, point)
                    \subseteq Points

\* A circle gesture pressed at the corner (1,1) and released one pixel away:
\* of the circle's points only the two inside the canvas were written.
C11_Witness ==
    /\ activeTool = "circle"
    /\ ~isDrawing
    /\ startPoint = [x |-> 1, y |-> 1]
    /\ Len(history) = 2
    /\ canvas = DrawPixels(FillAll(White),
                           {[x |-> 1, y |-> 0], [x |-> 0, y |-> 1]}, Black)

\* The 4-connected region of the seed's colour that contains the seed: the
\* least set that holds the seed and every pixel of that colour next to, above
\* or below one of its own.
RECURSIVE GrowRegion(_, _, _)
GrowRegion(data, colour, region) ==
    LET more == { p \in Points :
                    /\ data[p] = colour
                    /\ \E q \in region : Abs(p.x - q.x) + Abs(p.y - q.y) = 1 }
    IN  IF more \subseteq region THEN region
        ELSE GrowRegion(data, colour, region \cup more)

Region(data, seed) == GrowRegion(data, data[seed], {seed})

(***************************************************************************)
(* C12.  A flood fill whose fill colour differs from the colour at the     *)
(* seed in some channel returns, and leaves the fill colour on exactly the *)
(* pixels of the 4-connected region of the seed and every other pixel as   *)
(* it was.                                                                 *)
(***************************************************************************)
C12_FillChangesExactlyRegion ==
    (raster.fn = "floodFill" /\ raster.done
     /\ HexToRgb(raster.a.color) # raster.a.data[raster.a.point])
    => /\ raster.out.returns
       /\ raster.out.data =
            [p \in Points |->
               IF p \in Region(raster.a.data, raster.a.point)
               THEN HexToRgb(raster.a.color)
               ELSE raster.a.data[p]]

\* A fill at (0,0) of a canvas white on the diagonal and red elsewhere: the
\* seed is black and the white pixel diagonal to it is still white.
C12_Witness ==
    /\ raster.fn = "floodFill" /\ raster.done
    /\ raster.a.point = [x |-> 0, y |-> 0]
    /\ raster.a.color = Black
    /\ raster.a.data[[x |-> 0, y |-> 0]] = HexToRgb(White)
    /\ raster.a.data[[x |-> 1, y |-> 1]] = HexToRgb(White)
    /\ raster.a.data[[x |-> 1, y |-> 0]] = HexToRgb(Red)
    /\ raster.a.data[[x |-> 0, y |-> 1]] = HexToRgb(Red)
    /\ raster.out.data[[x |-> 0, y |-> 0]] = HexToRgb(Black)
    /\ raster.out.data[[x |-> 1, y |-> 1]] = HexToRgb(White)

(***************************************************************************)
(* C13.  A flood fill whose fill colour has the channels of the colour at  *)
(* the seed is a no-op: it returns and the canvas is as it was, whichever  *)
(* way the foreground colour is written.                                   *)
(***************************************************************************)
C13_FillWithSeedColourIsNoOp ==
    (raster.fn = "floodFill" /\ raster.done
     /\ HexToRgb(raster.a.color) = raster.a.data[raster.a.point])
    => (raster.out.returns /\ raster.out.data = raster.a.data)

(***************************************************************************)
(* C14.  Every flood fill returns, having popped no more points than four  *)
(* for each pixel of the canvas and the seed.                              *)
(***************************************************************************)
C14_FillTerminates ==
    (raster.fn = "floodFill" /\ raster.done)
    => (raster.out.returns /\ raster.out.pops <= 4 * Width * Height + 1)

(***************************************************************************)
(* C15.  The pixels of the line from B to A are those of the line from A   *)
(* to B reflected in the midpoint of A and B (p goes to A + B - p), so the *)
(* two lines have as many pixels; they are the same set of pixels when the *)
(* line is horizontal, vertical or diagonal.                               *)
(***************************************************************************)
C15_ReverseLineIsReflection ==
    (raster.fn = "drawLine" /\ raster.done)
    => LET a == raster.a
           forward == Range(raster.out.line.path)
           backward == Range(LinePath(a.x1, a.y1, a.x0, a.y0).path)
       IN  /\ backward = { [x |-> a.x0 + a.x1 - p.x, y |-> a.y0 + a.y1 - p.y] :
                             p \in forward }
           /\ Cardinality(backward) = Cardinality(forward)
           /\ (a.x0 = a.x1 \/ a.y0 = a.y1
               \/ Abs(a.x1 - a.x0) = Abs(a.y1 - a.y0))
              => backward = forward

\* C15 as claimed: the line from B to A has the pixels of the line from A to B.
C15_LineIsSymmetric ==
    (raster.fn = "drawLine" /\ raster.done)
    => Range(LinePath(raster.a.x1, raster.a.y1, raster.a.x0, raster.a.y0).path)
         = Range(raster.out.line.path)

\* The line from (0,0) to (2,1) has run and passes through (1,0); the line
\* from (2,1) to (0,0) passes through (1,1).
C15_Witness ==
    /\ raster.fn = "drawLine" /\ raster.done
    /\ raster.a.x0 = 0 /\ raster.a.y0 = 0 /\ raster.a.x1 = 2 /\ raster.a.y1 = 1
    /\ raster.out.line.path = << [x |-> 0, y |-> 0], [x |-> 1, y |-> 0],
                                 [x |-> 2, y |-> 1] >>
    /\ [x |-> 1, y |-> 1] \in Range(LinePath(2, 1, 0, 0).path)

(***************************************************************************)
(* C16.  drawLine returns, and the pixels it plots start at (x0,y0), end   *)
(* at (x1,y1), number max(|x1-x0|, |y1-y0|) + 1, each next to the one      *)
(* before it (a step of one pixel along a row, a column or a diagonal),    *)
(* and lie in the bounding box of the two end points; from (0,0) to (5,0)  *)
(* they are the six pixels of that row, and for equal end points the one   *)
(* pixel.                                                                  *)
(***************************************************************************)
C16_LineIsConnectedPath ==
    (raster.fn = "drawLine" /\ raster.done)
    => LET a == raster.a
           path == raster.out.line.path
       IN  /\ raster.out.line.returns
           /\ path[1] = [x |-> a.x0, y |-> a.y0]
           /\ path[Len(path)] = [x |-> a.x1, y |-> a.y1]
           /\ Len(path) = Max(Abs(a.x1 - a.x0), Abs(a.y1 - a.y0)) + 1
           /\ \A k \in 1..(Len(path) - 1) :
                Max(Abs(path[k + 1].x - path[k].x),
                    Abs(path[k + 1].y - path[k].y)) = 1
           /\ \A k \in 1..Len(path) :
                /\ path[k].x \in Min(a.x0, a.x1)..Max(a.x0, a.x1)
                /\ path[k].y \in Min(a.y0, a.y1)..Max(a.y0, a.y1)
           /\ (a.x0 = 0 /\ a.y0 = 0 /\ a.x1 = 5 /\ a.y1 = 0)
              => path = [k \in 1..6 |-> [x |-> k - 1, y |-> 0]]
           /\ (a.x0 = a.x1 /\ a.y0 = a.y1)
              => path = << [x |-> a.x0, y |-> a.y0] >>

\* The line from (0,0) to (5,0) has run and plotted six pixels.
C16_Witness ==
    /\ raster.fn = "drawLine" /\ raster.done
    /\ raster.a.x0 = 0 /\ raster.a.y0 = 0 /\ raster.a.x1 = 5 /\ raster.a.y1 = 0
    /\ Len(raster.out.line.path) = 6

(***************************************************************************)
(* C17.  drawRect gives the same pixels for the two corners in either      *)
(* order.  In outline mode it writes exactly the pixels of the closed      *)
(* rectangle between the corners that lie on its top or bottom row or its  *)
(* left or right column, in filled mode exactly the pixels of the closed   *)
(* rectangle; every other pixel of the canvas is as it was.                *)
(***************************************************************************)
C17_RectIsBorderOrClosedRectangle ==
    (raster.fn = "drawRect" /\ raster.done)
    => LET a == raster.a
           left == Min(a.x0, a.x1)
           right == Max(a.x0, a.x1)
           top == Min(a.y0, a.y1)
           bottom == Max(a.y0, a.y1)
           Inside(px, py) == left <= px /\ px <= right /\ top <= py /\ py <= bottom
           OnEdge(px, py) == px = left \/ px = right \/ py = top \/ py = bottom
           Written(px, py) == Inside(px, py) /\ (a.filled \/ OnEdge(px, py))
       IN  /\ \A px \in (left - 1)..(right + 1), py \in (top - 1)..(bottom + 1) :
                ([x |-> px, y |-> py] \in raster.out.pixels) <=> Written(px, py)
           /\ \A p \in raster.out.pixels : Inside(p.x, p.y)
           /\ raster.out.data =
                [p \in Points |-> IF Written(p.x, p.y) THEN HexToRgb(a.color)
                                  ELSE a.data[p]]
           /\ raster.out.pixels = RectPixels(a.x1, a.y1, a.x0, a.y0, a.filled)
           /\ raster.out.pixels = RectPixels(a.x1, a.y0, a.x0, a.y1, a.filled)

\* The outline from (1,1) back to (-1,-1) on the canvas red off the diagonal:
\* the corner (1,1) and the edges through it are written, the interior pixel
\* (0,0) is not.
C17_Witness ==
    /\ raster.fn = "drawRect" /\ raster.done /\ ~raster.a.filled
    /\ raster.a.x0 = 1 /\ raster.a.y0 = 1 /\ raster.a.x1 = -1 /\ raster.a.y1 = -1
    /\ raster.a.data[[x |-> 1, y |-> 0]] = HexToRgb(Red)
    /\ Cardinality(raster.out.pixels) = 8
    /\ raster.out.data[[x |-> 0, y |-> 0]] = HexToRgb(White)
    /\ raster.out.data[[x |-> 1, y |-> 0]] = HexToRgb(Black)
    /\ raster.out.data[[x |-> 1, y |-> 1]] = HexToRgb(Black)

(***************************************************************************)
(* C18.  A filled drawCircle of centre (cx,cy) and radius r >= 0 writes    *)
(* exactly the pixels of the canvas with (px-cx)^2 + (py-cy)^2 <= r^2 and  *)
(* leaves every other pixel as it was; with radius 0 only the centre can   *)
(* change.                                                                 *)
(***************************************************************************)
C18_FilledCircleIsDisc ==
    (raster.fn = "drawCircle" /\ raster.done /\ raster.a.filled)
    => LET a == raster.a
           InDisc(p) == (p.x - a.centerX) * (p.x - a.centerX)
                        + (p.y - a.centerY) * (p.y - a.centerY)
                        <= a.radius * a.radius
       IN  /\ raster.out.data =
                [p \in Points |-> IF InDisc(p) THEN HexToRgb(a.color)
                                  ELSE a.data[p]]
           /\ a.radius = 0
              => \A p \in Points :
                   IF p = [x |-> a.centerX, y |-> a.centerY]
                   THEN raster.out.data[p] = HexToRgb(a.color)
                   ELSE raster.out.data[p] = a.data[p]

\* The filled circle of radius 1 at (0,0) on the white canvas: the centre and
\* its two neighbours are black, the diagonal pixel (1,1) is still white.
C18_Witness ==
    /\ raster.fn = "drawCircle" /\ raster.done /\ raster.a.filled
    /\ raster.a.centerX = 0 /\ raster.a.centerY = 0 /\ raster.a.radius = 1
    /\ raster.a.data = FillAll(White)
    /\ raster.out.data =
         [p \in Points |-> IF p = [x |-> 1, y |-> 1] THEN HexToRgb(White)
                           ELSE HexToRgb(Black)]

\* The images whose dimensions are not the canvas's.
OtherDimensions(img) == img.width # Width \/ img.height # Height

(***************************************************************************)
(* C19.  The load of an imported image never fails: the image, resampled   *)
(* to the canvas's dimensions when its own differ, replaces the contents   *)
(* of the buffer and is appended to the history as its last entry.  An     *)
(* image of the canvas's dimensions replaces the buffer pixel for pixel,   *)
(* an image of one colour gives a buffer of that colour, and the buffer    *)
(* always has the canvas's dimensions.                                     *)
(***************************************************************************)
C19_BufferHasCanvasDimensions == DOMAIN canvas = Points

C19_ImportResamplesToCanvas ==
    /\ [][ \A i \in 1..MaxPendingImports :
             ImportOnload(i)
             => LET img == pendingImports[i].img
                IN  /\ DOMAIN canvas' = Points
                    /\ ~OtherDimensions(img) => canvas' = img.pixels
                    /\ \A c \in { img.pixels[q] : q \in DOMAIN img.pixels } :
                         (\A q \in DOMAIN img.pixels : img.pixels[q] = c)
                         => canvas' = [p \in Points |-> c]
                    /\ Len(history') >= 1
                    /\ history'[Len(history')] = canvas' ]_vars
    /\ []C19_BufferHasCanvasDimensions

\* C19 as claimed: the load of an image of other dimensions changes neither
\* the buffer nor the history.
C19_OtherDimensionsRejected ==
    [][ \A i \in 1..MaxPendingImports :
          (ImportOnload(i) /\ OtherDimensions(pendingImports[i].img))
          => (canvas' = canvas /\ NoCapture) ]_vars

\* The import of the all-red image one column wider than the canvas, right
\* after the start: the buffer is all red and is the second history entry.
C19_Witness ==
    /\ events = 2
    /\ pendingImports = <<>>
    /\ canvas = [p \in Points |-> [r |-> 255, g |-> 0, b |-> 0]]
    /\ history = << FillAll(White), canvas >>
    /\ historyIndex = 1

\* The pixels of the normalised selection rectangle, as a block with its
\* top-left at (0,0).
BlockOf(data, sel) ==
    LET left == Min(sel.start.x, sel.end.x)
        top == Min(sel.start.y, sel.end.y)
        right == Max(sel.start.x, sel.end.x)
        bottom == Max(sel.start.y, sel.end.y)
    IN  [q \in { [x |-> qx, y |-> qy] : qx \in 0..(right - left),
                                        qy \in 0..(bottom - top) }
           |-> data[[x |-> left + q.x, y |-> top + q.y]]]

\* data with block written with its top-left at dest, clipped to the canvas.
Pasted(data, block, dest) ==
    [p \in Points |->
       IF [x |-> p.x - dest.x, y |-> p.y - dest.y] \in DOMAIN block
       THEN block[[x |-> p.x - dest.x, y |-> p.y - dest.y]]
       ELSE data[p]]

(***************************************************************************)
(* C20.  A gesture of the select tool leaves a selection from the press    *)
(* point to the release point and changes no pixel.  A copy with a         *)
(* selection puts the block of the selection on the clipboard; a paste     *)
(* with a block on the clipboard writes it with its top-left at the        *)
(* destination point (the last pointer position), clipped to the canvas,   *)
(* and appends one history entry.  A copy without a selection and a paste  *)
(* with an empty clipboard change neither the buffer nor the history.      *)
(***************************************************************************)
C20_CopyThenPasteWritesBlock ==
    [][ /\ (activeTool = "select" /\ isDrawing /\ ~isDrawing' /\ ReleaseOrLeave)
           => /\ selection' # NULL
              /\ selection'.start = startPoint
              /\ canvas' = canvas
        /\ CtrlKeyDown("c")
           => IF selection = NULL
              THEN clipboard' = clipboard /\ canvas' = canvas /\ NoCapture
              ELSE clipboard' = BlockOf(canvas, selection) /\ canvas' = canvas
        /\ CtrlKeyDown("v")
           => IF clipboard = NULL
              THEN canvas' = canvas /\ NoCapture
              ELSE /\ canvas' = Pasted(canvas, clipboard, currentPoint)
                   /\ AppendedOnce(historyIndex, canvas') ]_vars

(***************************************************************************)
(* C21.  With the pencil or the eraser active, a press and each move while *)
(* the button is held set exactly one pixel, the one at the clamped        *)
(* pointer position, to the foreground colour (pencil) or the background   *)
(* colour (eraser) and leave every other pixel as it was; a move while the *)
(* button is not held changes no pixel, and a release or a leave changes   *)
(* no pixel.                                                               *)
(***************************************************************************)
\* The colour the active freehand tool writes.
C21_Ink == IF activeTool = "pencil" THEN foregroundColor ELSE backgroundColor

\* canvas' is canvas with the pixel at point in the ink and nothing else changed.
C21_OnlyPixelSet(point) ==
    /\ canvas'[point] = HexToRgb(C21_Ink)
    /\ \A p \in Points \ {point} : canvas'[p] = canvas[p]

\* Presses and moves reach the handlers with the pointer over the canvas.
C21_FreehandSetsOnePixel ==
    [][ (activeTool \in {"pencil", "eraser"}) =>
          /\ \A ox \in InsideOffsets(Width), oy \in InsideOffsets(Height) :
               LET point == [x |-> Max(0, Min(Width - 1, ox \div zoom)),
                             y |-> Max(0, Min(Height - 1, oy \div zoom))]
               IN  (HandleMouseDown(ox, oy)
                      \/ (isDrawing /\ HandleMouseMove(ox, oy)))
                     => C21_OnlyPixelSet(point)
          /\ ((~isDrawing /\ MouseMove) \/ ReleaseOrLeave) => canvas' = canvas
      ]_vars

\* A pencil stroke in progress: pressed at (0, 0), moved to (1, 0), on the
\* white canvas; the two pixels are black and the other two white.
C21_Witness ==
    /\ activeTool = "pencil" /\ isDrawing
    /\ startPoint = [x |-> 0, y |-> 0]
    /\ currentPoint = [x |-> 1, y |-> 0]
    /\ \A p \in Points :
         canvas[p] = IF p.y = 0 THEN HexToRgb(Black) ELSE HexToRgb(White)

(***************************************************************************)
(* C22.  During a continuous pencil or eraser drag a history capture is    *)
(* made when the debounce window (500 ms) has elapsed after the last       *)
(* mutation, in addition to the capture made on release.  The timer's      *)
(* callback in the code calls saveCanvas only: it persists the buffer.     *)
(***************************************************************************)
\* As claimed: the step in which the debounce timer fires captures the buffer.
C22_DebounceCapturesHistory ==
    [][ (isDrawing /\ activeTool \in {"pencil", "eraser"}
           /\ \E id \in TimerIds : SaveTimerFires(id))
          => (AppendedOnce(historyIndex, canvas)
                /\ historyIndex' = historyIndex + 1) ]_vars

\* Amended: when the debounce timer fires the buffer is persisted as it is
\* and no history capture is made; the moves of a pencil or eraser drag
\* capture nothing, and its release captures the buffer once.
C22_DebouncePersistsReleaseCaptures ==
    [][ /\ (\E id \in TimerIds : SaveTimerFires(id))
             => (NoCapture /\ canvas' = canvas
                   /\ canvasData' = ToDataURL(canvas))
        /\ (isDrawing /\ activeTool \in {"pencil", "eraser"})
             => /\ MouseMove => NoCapture
                /\ ReleaseOrLeave => (AppendedOnce(historyIndex, canvas)
                                        /\ historyIndex' = historyIndex + 1)
      ]_vars

\* A pencil drag still in progress whose debounce timer has fired: the
\* stroke is persisted, and the history holds only the entry of the mount.
C22_Witness ==
    /\ isDrawing /\ activeTool = "pencil"
    /\ saveTimeout # NoTimer /\ pendingTimers = {}
    /\ canvasData = ToDataURL(canvas)
    /\ Len(history) = 1 /\ historyIndex = 0
    /\ history[1] # canvas

(***************************************************************************)
(* C23.  After any sequence of zoom-in and zoom-out actions (the keys '+', *)
(* '=' and '-', or the toolbar's buttons) the zoom level is within the     *)
(* documented range, 1x to 8x.  The code's upper limit is 16.              *)
(***************************************************************************)
C23_ZoomWithinDocumentedRange == zoom \in 1..8

(***************************************************************************)
(* C24.  The tool of a gesture is fixed at the press: when the active tool *)
(* is changed while the button is held, the release still behaves as for   *)
(* the tool that was active at the press.  Stated step by step: a tool     *)
(* change during a gesture leaves what a release at any point would write  *)
(* as it was before the change (so a gesture started with the pencil never *)
(* commits a line).  handleMouseUp reads the activeTool of its own render. *)
(***************************************************************************)
C24_ToolChangeKeepsGestureTool ==
    [][ (isDrawing /\ activeTool' # activeTool
           /\ \E tool \in Tools : SetActiveTool(tool))
          => \A point \in Points :
               ReleaseCanvas(canvas', activeTool', startPoint', point,
                             foregroundColor')
                 = ReleaseCanvas(canvas, activeTool, startPoint, point,
                                 foregroundColor) ]_vars

(***************************************************************************)
(* C25.  Whenever no gesture is in progress and no asynchronous callback   *)
(* (image load, import, debounce timer) is pending, the history entry at   *)
(* historyIndex exists and equals the pixel buffer -- also after an import *)
(* that finishes when undos or edits have been made since the file was     *)
(* chosen.                                                                 *)
(***************************************************************************)
C25_Quiescent ==
    /\ mounted /\ ~hung /\ ~isDrawing
    /\ pendingLoads = <<>> /\ pendingImports = <<>> /\ pendingTimers = {}

C25_CurrentEntryIsBuffer ==
    C25_Quiescent => /\ historyIndex + 1 \in 1..Len(history)
                     /\ history[historyIndex + 1] = canvas

\* The same with the current entry required only when it exists.
C25_ExistingEntryIsBuffer ==
    (C25_Quiescent /\ historyIndex + 1 \in 1..Len(history))
       => history[historyIndex + 1] = canvas

(***************************************************************************)
(* C26.  The image reload that follows each save never changes the pixel   *)
(* buffer: when its onload runs, the buffer already holds those pixels.    *)
(* The onload of loadCanvas redraws the image that was saved, over         *)
(* whatever has been drawn since.                                          *)
(***************************************************************************)
C26_ReloadLeavesBuffer ==
    [][ (\E i \in 1..MaxPendingLoads : LoadCanvasOnload(i))
          => canvas' = canvas ]_vars

(***************************************************************************)
(* C27.  At most one debounce timer is pending at any time: every pencil   *)
(* or eraser move cancels the timer armed by the move before it and then   *)
(* arms its own, also when several moves are handled before the component  *)
(* renders again.  debouncedSave cancels the saveTimeout of the render     *)
(* that created it, which is not the timer of a move handled since.        *)
(***************************************************************************)
C27_AtMostOneTimerPending == Cardinality(pendingTimers) <= 1

(***************************************************************************)
(* C28.  An outline circle of radius r centred at (cx, cy) sets only       *)
(* pixels of the canvas that lie in the square [cx - r, cx + r] x          *)
(* [cy - r, cy + r]; with r = 0 it sets the centre pixel only.  The loop   *)
(* of drawCircle plots once more after its last step, at (x, y) with       *)
(* y = x - 1, which for r = 0 is (1, -1): the centre's diagonal            *)
(* neighbours.                                                             *)
(***************************************************************************)
C28_OutlineWithinBoundingSquare ==
    (raster.fn = "drawCircle" /\ raster.done /\ ~raster.a.filled)
      => \A p \in Points :
           raster.out.data[p] # raster.a.data[p]
             => /\ Abs(p.x - raster.a.centerX) <= raster.a.radius
                /\ Abs(p.y - raster.a.centerY) <= raster.a.radius

\* The same for the radii from 1 on.
C28_OutlineWithinSquareFromRadiusOne ==
    (raster.fn = "drawCircle" /\ raster.done /\ ~raster.a.filled
       /\ raster.a.radius >= 1)
      => \A p \in Points :
           raster.out.data[p] # raster.a.data[p]
             => /\ Abs(p.x - raster.a.centerX) <= raster.a.radius
                /\ Abs(p.y - raster.a.centerY) <= raster.a.radius

=============================================================================
